---- MODULE Spec2Model ----
(***************************************************************************)
(* FinSight semantic query cache (src/tools/cache.py, class QueryCache).   *)
(*                                                                         *)
(* Text is modelled at the level of whitespace-separated tokens: a query   *)
(* is a sequence of raw tokens, a normalized query is the sequence of its  *)
(* surviving lowercase tokens (the string ' '.join(words) and its split()  *)
(* are the same token sequence).  Character-level facts about a token      *)
(* (its lowercase form, whether it is an all-caps alphabetic word of 1-5   *)
(* letters, where punctuation splits it, its place in string order) are    *)
(* given by tables over the vocabulary.  The word lists are those of the   *)
(* source.  Time is counted in whole hours; ages are converted to seconds  *)
(* where the code compares them with CACHE_TTL.                            *)
(***************************************************************************)
EXTENDS Integers, Sequences, FiniteSets, TLC

\* ------------------------------------------------------------------------
\* Bounds of the model
\* ------------------------------------------------------------------------
MaxTime == 2        \* the clock runs over the hours 0..MaxTime
MaxTTLHours == 2    \* CACHE_TTL is 1..MaxTTLHours hours, in seconds
MaxDocs == 2        \* cache_response is called while its write leaves at most this many documents
MaxClearHours == 1  \* clear_cache is called with older_than_hours in 0..MaxClearHours
MaxWords == 2       \* a text handed to a helper on its own has at most this many tokens
MaxWriters == 2     \* process instances that write to the collection at the same time

SecondsPerHour == 3600

\* ------------------------------------------------------------------------
\* Vocabulary tables (character-level facts about tokens)
\* ------------------------------------------------------------------------

\* str.lower() on the tokens of the vocabulary that contain uppercase letters
LowerTable == [AAPL |-> "aapl", Apple |-> "apple", The |-> "the"]

lower(w) == IF w \in DOMAIN LowerTable THEN LowerTable[w] ELSE w

\* re.sub(r'[^\w\s$%]', ' ', s) followed by split(): the pieces a token with
\* punctuation falls into
PunctTable == ("price?" :> <<"price">>) @@ ("what's" :> <<"what", "s">>)

depunct(w) == IF w \in DOMAIN PunctTable THEN PunctTable[w] ELSE <<w>>

\* word.isupper() and 1 <= len(word) <= 5 and word.isalpha()
IsTickerShaped(w) == w \in {"AAPL"}

\* re.match(r'^\d+\.?\d*%?$', word)
IsNumber(w) == w \in {"5%", "100"}

\* Python's order on the strings that can land in companies, topics or locations
StringOrder ==
    <<"AAPL", "aapl", "amazon", "amd", "america", "apple", "asia", "china", "crypto",
      "earnings", "economy", "europe", "facebook", "forex", "google", "india",
      "intel", "japan", "market", "meta", "microsoft", "netflix", "news", "nvidia",
      "pakistan", "price", "regulation", "stock", "stocks", "tesla", "uk", "usa",
      "weather">>

\* ------------------------------------------------------------------------
\* Sequence helpers
\* ------------------------------------------------------------------------
\* the concatenation of the sequences ss[k], ss[k+1], ...
RECURSIVE FlattenFrom(_, _)
FlattenFrom(ss, k) == IF k > Len(ss) THEN <<>> ELSE ss[k] \o FlattenFrom(ss, k + 1)

Flatten(ss) == FlattenFrom(ss, 1)

Range(s) == {s[k] : k \in DOMAIN s}

\* sep.join(parts), as a sequence of tokens
Join(sep, parts) ==
    [k \in 1..(IF parts = <<>> THEN 0 ELSE 2 * Len(parts) - 1) |->
        IF k % 2 = 1 THEN parts[(k + 1) \div 2] ELSE sep]

\* sorted(list): the strings of the list, each as often as it occurs, in string order
Rank(w) == CHOOSE k \in DOMAIN StringOrder : StringOrder[k] = w

sorted(s) ==
    [k \in 1..Len(s) |->
        CHOOSE w \in Range(s) :
            /\ Cardinality({j \in DOMAIN s : Rank(s[j]) < Rank(w)}) < k
            /\ k <= Cardinality({j \in DOMAIN s : Rank(s[j]) <= Rank(w)})]

\* ------------------------------------------------------------------------
\* QueryCache.__init__: word lists
\* ------------------------------------------------------------------------
stop_words ==
    {"a", "an", "and", "are", "as", "at", "be", "by", "for", "from",
     "has", "he", "in", "is", "it", "its", "of", "on", "that", "the",
     "to", "was", "will", "with", "can", "you", "tell", "me", "about",
     "what", "how", "when", "where", "why", "which", "who", "this",
     "these", "those", "have", "had", "do", "does", "did", "would",
     "could", "should", "may", "might", "must", "shall"}

\* dict order is insertion order
financial_synonyms ==
    << <<"price", {"cost", "value", "worth", "rate"}>>,
       <<"stock", {"shares", "equity", "ticker"}>>,
       <<"crypto", {"cryptocurrency", "bitcoin", "btc", "digital currency"}>>,
       <<"market", {"trading", "exchange", "financial market"}>>,
       <<"news", {"update", "announcement", "report", "information"}>>,
       <<"earnings", {"profit", "revenue", "income", "financial results"}>>,
       <<"regulation", {"regulatory", "compliance", "legal", "policy"}>>,
       <<"weather", {"climate", "temperature", "forecast", "conditions"}>> >>

financial_topics ==
    << <<"earnings", {"earnings", "profit", "revenue", "income", "quarterly", "results"}>>,
       <<"crypto", {"crypto", "bitcoin", "btc", "ethereum", "eth", "blockchain", "digital"}>>,
       <<"stocks", {"stock", "shares", "equity", "market", "trading", "investment"}>>,
       <<"regulation", {"regulation", "regulatory", "sec", "cftc", "compliance", "legal"}>>,
       <<"economy", {"economy", "economic", "gdp", "inflation", "interest", "rates"}>>,
       <<"forex", {"forex", "currency", "dollar", "euro", "yen", "pound"}>> >>

company_names ==
    {"apple", "tesla", "microsoft", "google", "amazon", "facebook", "meta",
     "netflix", "nvidia", "amd", "intel"}

time_period_words ==
    {"today", "yesterday", "tomorrow", "week", "month", "year", "quarter",
     "q1", "q2", "q3", "q4"}

location_words ==
    {"pakistan", "china", "usa", "uk", "india", "japan", "europe", "asia", "america"}

action_words ==
    {"dropping", "falling", "rising", "up", "down", "crash", "rally", "surge",
     "plunge", "gain", "loss"}

\* ------------------------------------------------------------------------
\* _normalize_query
\* ------------------------------------------------------------------------
not_stop_word(word) == word \notin stop_words

\* variant: the stop words are dropped before punctuation is replaced
_normalize_query_filter_first(query) ==
    Flatten([k \in DOMAIN SelectSeq([j \in DOMAIN query |-> lower(query[j])], not_stop_word) |->
                depunct(SelectSeq([j \in DOMAIN query |-> lower(query[j])], not_stop_word)[k])])

\* lowercase; punctuation to spaces; split on whitespace; drop the stop words.
\* The result stands for the string ' '.join(filtered_words).
_normalize_query(query) ==
    SelectSeq(Flatten([k \in DOMAIN query |-> depunct(lower(query[k]))]), not_stop_word)

\* ------------------------------------------------------------------------
\* _extract_key_entities
\* ------------------------------------------------------------------------
\* the branch of the if/elif chain a word takes
bucket_of(word) ==
    IF IsTickerShaped(word) THEN "companies"
    ELSE IF lower(word) \in company_names THEN "companies"
    ELSE IF word \in time_period_words THEN "time_periods"
    ELSE IF word \in location_words THEN "locations"
    ELSE IF IsNumber(word) THEN "numbers"
    ELSE IF word \in action_words THEN "actions"
    ELSE "keywords"

\* the words that take the branch of bucket b, in order
bucket_words(words, b) == SelectSeq(words, LAMBDA w : bucket_of(w) = b)

\* what the companies branch appends: the word, or word.lower()
company_entry(word) == IF IsTickerShaped(word) THEN word ELSE lower(word)

\* second loop: the first topic of financial_synonyms whose list holds the
\* word (break), if any
synonym_topic(word) ==
    LET hits == {k \in DOMAIN financial_synonyms :
                    word \in financial_synonyms[k][2] \/ word = financial_synonyms[k][1]}
    IN  IF hits = {} THEN <<>>
        ELSE <<financial_synonyms[CHOOSE k \in hits : \A j \in hits : k <= j][1]>>

\* third loop: topic k of financial_topics, if any of its keywords is a word
financial_topic(words, k) ==
    IF \E keyword \in financial_topics[k][2] : keyword \in Range(words)
    THEN <<financial_topics[k][1]>> ELSE <<>>

\* the three loops over words = normalized.split()
company_entries(companies) == [k \in DOMAIN companies |-> company_entry(companies[k])]

entities_of_words(words) ==
    [companies |-> company_entries(bucket_words(words, "companies")),
     locations |-> bucket_words(words, "locations"),
     topics |-> Flatten([k \in DOMAIN words |-> synonym_topic(words[k])])
                \o Flatten([k \in DOMAIN financial_topics |-> financial_topic(words, k)]),
     time_periods |-> bucket_words(words, "time_periods"),
     keywords |-> bucket_words(words, "keywords"),
     actions |-> bucket_words(words, "actions"),
     numbers |-> bucket_words(words, "numbers")]

_extract_key_entities(query) == entities_of_words(_normalize_query(query))

\* variant: components without the normalized text
semantic_string_entities_only(intent, normalized, entities) ==
    Flatten(Join(<<"::">>,
                 << <<intent>>,
                    Join("|", sorted(entities.companies)),
                    Join("|", sorted(entities.topics)),
                    Join("|", sorted(entities.locations)) >>))

\* ------------------------------------------------------------------------
\* _generate_semantic_key / _generate_query_hash
\* ------------------------------------------------------------------------
\* variant: components without the intent
semantic_string_without_intent(intent, normalized, entities) ==
    Flatten(Join(<<"::">>,
                 << Join(" ", normalized),
                    Join("|", sorted(entities.companies)),
                    Join("|", sorted(entities.topics)),
                    Join("|", sorted(entities.locations)) >>))

\* semantic_string = '::'.join(components), as a token sequence
semantic_string(intent, normalized, entities) ==
    Flatten(Join(<<"::">>,
                 << <<intent>>,
                    Join(" ", normalized),
                    Join("|", sorted(entities.companies)),
                    Join("|", sorted(entities.topics)),
                    Join("|", sorted(entities.locations)) >>))

\* The MD5 digest is taken as injective: the key is the semantic string itself.
_generate_semantic_key(query, intent) ==
    semantic_string(intent, _normalize_query(query), _extract_key_entities(query))

_generate_query_hash(query, intent) == _generate_semantic_key(query, intent)

\* ------------------------------------------------------------------------
\* _calculate_similarity, in exact arithmetic: a score is <<num, den>>
\* ------------------------------------------------------------------------
\* weights, in hundredths, in dict order
weights ==
    << <<"companies", 40>>, <<"topics", 30>>, <<"actions", 20>>,
       <<"locations", 10>>, <<"time_periods", 10>>, <<"keywords", 5>> >>

\* f[1] * ... * f[n] and f[1] + ... + f[n]
RECURSIVE Product(_, _)
Product(f, n) == IF n = 0 THEN 1 ELSE f[n] * Product(f, n - 1)

RECURSIVE Sum(_, _)
Sum(f, n) == IF n = 0 THEN 0 ELSE f[n] + Sum(f, n - 1)

ZeroScore == <<0, 1>>

\* set(entities.get(entity_type, []))
entity_set(entities, entity_type) ==
    IF entity_type \in DOMAIN entities THEN Range(entities[entity_type]) ELSE {}

\* variant of the round: the overlap is taken against the first set, not the union
bucket_term_against_first(set1, set2, weight) ==
    IF set1 \cup set2 # {}
    THEN [weight |-> weight, inter |-> Cardinality(set1 \cap set2),
          union |-> IF set1 = {} THEN 1 ELSE Cardinality(set1)]
    ELSE [weight |-> 0, inter |-> 0, union |-> 1]

\* one round of the loop over weights: what the bucket adds to
\* max_possible_score (weight), and its Jaccard quotient inter/union.
\* A bucket empty on both sides adds nothing.
bucket_term(set1, set2, weight) ==
    IF set1 \cup set2 # {}
    THEN [weight |-> weight, inter |-> Cardinality(set1 \cap set2),
          union |-> Cardinality(set1 \cup set2)]
    ELSE [weight |-> 0, inter |-> 0, union |-> 1]

\* the bonus for two non-empty equal sets
exact_bonus(set1, set2, bonus) ==
    IF set1 # {} /\ set2 # {} /\ set1 = set2 THEN bonus ELSE 0

\* variant of the quotient: the bonuses are added to total_score only
score_of_bonus_on_top(terms, bonus, D) ==
    IF Sum([k \in DOMAIN terms |-> terms[k].weight], Len(terms)) * D > 0
    THEN << Sum([k \in DOMAIN terms |->
                    terms[k].weight * terms[k].inter * (D \div terms[k].union)],
                Len(terms)) + bonus * D,
            Sum([k \in DOMAIN terms |-> terms[k].weight], Len(terms)) * D >>
    ELSE ZeroScore

\* total_score / max_possible_score, over the common denominator D of the
\* Jaccard quotients
score_of(terms, bonus, D) ==
    IF (Sum([k \in DOMAIN terms |-> terms[k].weight], Len(terms)) + bonus) * D > 0
    THEN << Sum([k \in DOMAIN terms |->
                    terms[k].weight * terms[k].inter * (D \div terms[k].union)],
                Len(terms)) + bonus * D,
            (Sum([k \in DOMAIN terms |-> terms[k].weight], Len(terms)) + bonus) * D >>
    ELSE ZeroScore

similarity_of_terms(terms, bonus) ==
    score_of(terms, bonus, Product([k \in DOMAIN terms |-> terms[k].union], Len(terms)))

_calculate_similarity(entities1, entities2) ==
    similarity_of_terms(
        [k \in DOMAIN weights |->
            bucket_term(entity_set(entities1, weights[k][1]),
                        entity_set(entities2, weights[k][1]), weights[k][2])],
        exact_bonus(entity_set(entities1, "companies"),
                    entity_set(entities2, "companies"), 10)
        + exact_bonus(entity_set(entities1, "topics"),
                      entity_set(entities2, "topics"), 5))

\* score > other
ScoreGT(score, other) == score[1] * other[2] > other[1] * score[2]
\* score >= 0.6
AtThreshold(score) == 10 * score[1] >= 6 * score[2]

\* ------------------------------------------------------------------------
\* Inputs of the calls
\* ------------------------------------------------------------------------
Queries ==
    { <<"AAPL", "price", "today">>,
      <<"The", "AAPL", "price", "today">>,
      <<"AAPL", "price">>,
      <<"tesla", "news">> }

\* the queries of the semantic-match example (test_intelligent_cache.py), and
\* one that matches neither
ExampleQueries ==
    { <<"what", "is", "the", "price", "of", "AAPL", "stock">>,
      <<"AAPL", "stock", "price", "today">>,
      <<"tesla", "news">> }

AllQueries == Queries \cup ExampleQueries

Intents == {"price_movement", "company_news"}

\* payloads handed to cache_response: a result and a failure payload
Responses == { [analysis |-> "a1"], [error |-> "failed"] }

\* ------------------------------------------------------------------------
\* The pure helpers on the inputs of the model, computed once
\* ------------------------------------------------------------------------
NormalizedTable == [q \in AllQueries |-> _normalize_query(q)]
EntitiesTable == [q \in AllQueries |-> _extract_key_entities(q)]
HashTable == [q \in AllQueries, i \in Intents |-> _generate_query_hash(q, i)]
EntitySets == {EntitiesTable[q] : q \in AllQueries}
SimilarityOn(S) == [e1 \in S, e2 \in S |-> _calculate_similarity(e1, e2)]
SimilarityTable == SimilarityOn(EntitySets)

\* the document cache_response builds
cache_doc(query, intent, response, t, ttl) ==
    [query_hash |-> HashTable[query, intent],
     original_query |-> query,
     normalized_query |-> NormalizedTable[query],
     intent |-> intent,
     entities |-> EntitiesTable[query],
     response |-> response,
     created_at |-> t,
     cache_ttl |-> ttl]

\* self.db.query_cache when the instance connects: the collection outlives
\* the process, so it is empty or holds what an earlier run has written
PersistedStores(ttl) ==
    { {}, {cache_doc(<<"AAPL", "price", "today">>, "price_movement",
                     [analysis |-> "a1"], 0, ttl)} }

\* CACHE_TTL, in seconds, as read from the environment
TTLValues == {h * SecondsPerHour : h \in 1..MaxTTLHours}

\* what MongoClient/ping/create_index can do during _connect
ConnectOutcomes == {"ok", "ConnectionFailure", "ServerSelectionTimeoutError", "OperationFailure"}

\* A fault: the at-th backend call of the method raises err (at = 0: none does)
CallErrors == {"ServerSelectionTimeoutError", "OperationFailure"}

NoFault == [at |-> 0, err |-> "none"]

Faults(max_calls) == {NoFault} \cup {[at |-> k, err |-> e] : k \in 1..max_calls, e \in CallErrors}

NoQuery == <<>>
NoResponse == [none |-> "none"]
NoDoc == [none |-> "none"]
NoStats == [none |-> "none"]

\* ------------------------------------------------------------------------
\* State
\* ------------------------------------------------------------------------
VARIABLES
    phase,            \* "new": before __init__; "ready": constructed; "raised": __init__ raised
    collection_none,  \* self.collection is None
    connection_error, \* what _connect raised inside its try block ("none": not yet, "ok": nothing)
    CACHE_ENABLED,    \* self.config.CACHE_ENABLED
    CACHE_TTL,        \* self.config.CACHE_TTL, seconds
    store,            \* the documents of the MongoDB collection
    now,              \* datetime.utcnow(), in hours
    last,             \* the public call that has just returned (NoCall between calls): its
                      \* arguments, the documents it found, what it returned, the backend
                      \* calls it made
    args,             \* a helper of QueryCache called on its own: the helper and its arguments
    returned,         \* what the helper returned (NoResult: not called yet)
    video_store,      \* the documents of the video collection of a VideoCache instance
    video_last,       \* the public call of VideoCache that has just returned
    pending,          \* per writer process: the document its cache_response has built and
                      \* not yet sent to the collection (NoDoc: it is between calls)
    applied,          \* per query_hash: the document of the last update_one that was applied
    found             \* per process: the expired document its get_cached_response has read
                      \* and not yet deleted (NoDoc: it is not at that point)

\* the variables of the instance and its collection
cache_vars == <<phase, collection_none, connection_error, CACHE_ENABLED, CACHE_TTL, store, now, last>>

\* the variables the public methods of QueryCache leave alone
helper_vars == <<args, returned>>
video_vars == <<video_store, video_last>>
writer_vars == <<pending, applied, found>>

other_vars == <<helper_vars, video_vars, writer_vars>>

vars == <<phase, collection_none, connection_error, CACHE_ENABLED, CACHE_TTL, store, now, last,
          other_vars>>

NoArgs == [fn |-> "none"]
NoResult == [none |-> "none"]

\* the process instances that share the collection; none of them is inside
\* cache_response; no update_one has been applied
Writers == 1..MaxWriters
NoWriters == [w \in Writers |-> NoDoc]
NoneApplied == {}

NoVideoCall ==
    [op |-> "none", pre |-> {}, video_url |-> "none", payload |-> NoResponse, hours |-> 0,
     ret |-> "none", data |-> NoResponse, count |-> 0, path |-> "none", hit |-> NoDoc,
     calls |-> <<>>]

NoCall ==
    [op |-> "none", pre |-> {}, query |-> NoQuery, intent |-> "none",
     response |-> NoResponse, hours |-> 0,
     ret |-> "none", resp |-> NoResponse, count |-> 0, stats |-> NoStats,
     path |-> "none", hit |-> NoDoc, calls |-> <<>>]

Init ==
    /\ phase = "new"
    /\ collection_none = TRUE
    /\ connection_error = "none"
    /\ CACHE_ENABLED \in BOOLEAN
    /\ CACHE_TTL \in TTLValues
    /\ store \in PersistedStores(CACHE_TTL)
    /\ now = 0
    /\ last = NoCall
    /\ args = NoArgs
    /\ returned = NoResult
    /\ video_store = {}
    /\ video_last = NoVideoCall
    /\ pending = NoWriters
    /\ applied = NoneApplied
    /\ found = NoWriters

\* ------------------------------------------------------------------------
\* __init__ / _connect
\* ------------------------------------------------------------------------
\* variant of the except clause of _connect: "except ConnectionFailure"
caught_connection_failure_only == {"ConnectionFailure"}

\* the exceptions _connect catches
caught_by_connect == {"ConnectionFailure", "ServerSelectionTimeoutError"}

_connect(outcome) ==
    /\ phase = "new"
    /\ connection_error' = outcome
    /\ IF outcome = "ok"
       THEN phase' = "ready" /\ collection_none' = FALSE
       ELSE IF outcome \in caught_by_connect
       THEN phase' = "ready" /\ collection_none' = TRUE
       ELSE phase' = "raised" /\ collection_none' = TRUE
    /\ UNCHANGED <<CACHE_ENABLED, CACHE_TTL, store, now, last, other_vars>>

\* ------------------------------------------------------------------------
\* The MongoDB collection
\* ------------------------------------------------------------------------
\* variant of the write: insert_one(doc) on a collection without the unique index
update_one_as_insert(coll, h, doc) ==
    [coll |-> coll \cup {doc}, upserted |-> TRUE, modified_count |-> 0]

\* variant of the write: created_at under "$setOnInsert" (an existing entry
\* keeps its stamp)
update_one_keeping_created_at(coll, h, doc) ==
    LET matched == {d \in coll : d.query_hash = h}
    IN  IF matched = {}
        THEN [coll |-> coll \cup {doc}, upserted |-> TRUE, modified_count |-> 0]
        ELSE LET d == CHOOSE m \in matched : TRUE
                 kept == [doc EXCEPT !.created_at = d.created_at]
             IN  [coll |-> (coll \ {d}) \cup {kept}, upserted |-> FALSE,
                  modified_count |-> IF d = kept THEN 0 ELSE 1]

\* variant of the write: "$setOnInsert" in place of "$set" (the first writer's
\* document stays)
update_one_set_on_insert(coll, h, doc) ==
    LET matched == {d \in coll : d.query_hash = h}
    IN  IF matched = {}
        THEN [coll |-> coll \cup {doc}, upserted |-> TRUE, modified_count |-> 0]
        ELSE [coll |-> coll, upserted |-> FALSE, modified_count |-> 0]

\* collection.update_one({"query_hash": h}, {"$set": doc}, upsert=True)
update_one(coll, h, doc) ==
    LET matched == {d \in coll : d.query_hash = h}
    IN  IF matched = {}
        THEN [coll |-> coll \cup {doc}, upserted |-> TRUE, modified_count |-> 0]
        ELSE LET d == CHOOSE m \in matched : TRUE
             IN  [coll |-> (coll \ {d}) \cup {doc}, upserted |-> FALSE,
                  modified_count |-> IF d = doc THEN 0 ELSE 1]

\* variant of the sweep's filter: {"created_at": {"$lte": cutoff}}
older_than_or_at(coll, t, older_than_hours) ==
    {d \in coll : d.created_at * SecondsPerHour
                    <= t * SecondsPerHour - older_than_hours * SecondsPerHour}

\* collection.delete_many({"created_at": {"$lt": cutoff}}): the documents removed
older_than(coll, t, older_than_hours) ==
    {d \in coll : d.created_at * SecondsPerHour
                    < t * SecondsPerHour - older_than_hours * SecondsPerHour}

\* variants of the validity test: one that never lets an entry expire, one
\* that expires it an hour early
still_valid_forever(d, t, ttl) == d.created_at <= t

still_valid_hour_early(d, t, ttl) == (t - d.created_at) * SecondsPerHour < ttl - SecondsPerHour

\* age.total_seconds() < self.config.CACHE_TTL
still_valid(d, t, ttl) == (t - d.created_at) * SecondsPerHour < ttl

\* variant of the scan's filter without the "intent" condition
similar_filter_any_intent(d, intent, t, ttl) ==
    d.created_at * SecondsPerHour >= t * SecondsPerHour - ttl

\* {"intent": intent, "created_at": {"$gte": utcnow() - timedelta(seconds=CACHE_TTL)}}
similar_filter(d, intent, t, ttl) ==
    /\ d.intent = intent
    /\ d.created_at * SecondsPerHour >= t * SecondsPerHour - ttl

\* variant of the test on a scanned document: nothing passes
has_entities_never(d) == FALSE

\* doc.get('entities')
has_entities(d) == "entities" \in DOMAIN d

\* ------------------------------------------------------------------------
\* cache_response
\* ------------------------------------------------------------------------
\* variant of the guard that does not look at CACHE_ENABLED
bypassed_ignoring_config == collection_none

\* the guard at the head of get_cached_response and cache_response
bypassed == collection_none \/ ~CACHE_ENABLED

\* variant of the except clause: "except (ConnectionFailure, ServerSelectionTimeoutError)"
caught_connection_errors_only(err) == err \in {"ConnectionFailure", "ServerSelectionTimeoutError"}

\* "except Exception as e" of the public methods: every error class is caught
caught_by_method(err) == TRUE

\* the call ends in the except clause with the sentinel, or the error leaves it
Handled(err, sentinel) == IF caught_by_method(err) THEN sentinel ELSE "raise"

\* what cache_response does: the collection afterwards, the value returned,
\* the backend calls issued
CacheResponseOutcome(coll, query, intent, response, fault, t, ttl) ==
    LET doc == cache_doc(query, intent, response, t, ttl)
        result == update_one(coll, doc.query_hash, doc)
    IN  IF fault.at = 1
        THEN [coll |-> coll, ret |-> Handled(fault.err, "False"),
              calls |-> <<"update_one">>, path |-> "error"]
        ELSE [coll |-> result.coll,
              ret |-> IF result.upserted \/ result.modified_count > 0
                      THEN "True" ELSE "False",
              calls |-> <<"update_one">>, path |-> "written"]

\* A fault is an input only where it fires: fault.at is a backend call the
\* method gets to.
cache_response(query, intent, response, fault) ==
    /\ phase = "ready"
    /\ last = NoCall
    /\ IF bypassed
       THEN /\ fault = NoFault
            /\ store' = store
            /\ last' = [NoCall EXCEPT !.op = "cache_response", !.pre = store, !.query = query,
                           !.intent = intent, !.response = response,
                           !.ret = "False", !.path = "bypass"]
       ELSE LET o == CacheResponseOutcome(store, query, intent, response, fault,
                                          now, CACHE_TTL)
            IN  /\ fault # NoFault => o.path = "error"
                /\ Cardinality(o.coll) <= MaxDocs
                /\ store' = o.coll
                /\ last' = [NoCall EXCEPT !.op = "cache_response", !.pre = store, !.query = query,
                               !.intent = intent, !.response = response,
                               !.ret = o.ret, !.path = o.path,
                               !.calls = o.calls]
    /\ UNCHANGED <<phase, collection_none, connection_error, CACHE_ENABLED, CACHE_TTL, now, other_vars>>

\* ------------------------------------------------------------------------
\* get_cached_response
\* ------------------------------------------------------------------------
\* response['cached'] = True; response['cache_similarity'] = best_score;
\* response['original_query'] = best_match.get('original_query', query)
annotated(response, best_score, best_match) ==
    [k \in DOMAIN response \cup {"cached", "cache_similarity", "original_query"} |->
        IF k = "cached" THEN "True"
        ELSE IF k = "cache_similarity" THEN best_score
        ELSE IF k = "original_query" THEN best_match.original_query
        ELSE response[k]]

\* the loop over similar_queries: the documents that can end as best_match,
\* given the score of every document that has entities.  The cursor's order
\* is the store's; the first document with the highest score wins, so any
\* document with the highest score can.
best_matches(scores) ==
    {d \in DOMAIN scores :
        /\ ScoreGT(scores[d], ZeroScore)
        /\ AtThreshold(scores[d])
        /\ \A e \in DOMAIN scores : ~ScoreGT(scores[e], scores[d])}

\* variant of the end of the scan: the annotated response is saved into the
\* matched document
scan_results_saving_annotations(coll, best, scores, made) ==
    IF best = {}
    THEN {[coll |-> coll, ret |-> "None", resp |-> NoResponse,
           path |-> "miss", hit |-> NoDoc, calls |-> made]}
    ELSE {[coll |-> (coll \ {d}) \cup
                       {[d EXCEPT !.response = annotated(d.response, scores[d], d)]},
           ret |-> "response",
           resp |-> annotated(d.response, scores[d], d),
           path |-> "semantic", hit |-> d, calls |-> made] : d \in best}

\* what the method returns once the loop has ended with best_match in best
scan_results(coll, best, scores, made) ==
    IF best = {}
    THEN {[coll |-> coll, ret |-> "None", resp |-> NoResponse,
           path |-> "miss", hit |-> NoDoc, calls |-> made]}
    ELSE {[coll |-> coll, ret |-> "response",
           resp |-> annotated(d.response, scores[d], d),
           path |-> "semantic", hit |-> d, calls |-> made] : d \in best}

\* the outcomes of the semantic part, on collection coll, after the calls made so far
SemanticScan(coll, entities, similar_queries, fault, made) ==
    IF fault.at = Len(made)
    THEN {[coll |-> coll, ret |-> Handled(fault.err, "None"), resp |-> NoResponse,
           path |-> "error", hit |-> NoDoc, calls |-> made]}
    ELSE scan_results(coll,
                      best_matches([d \in {x \in similar_queries : has_entities(x)} |->
                                       SimilarityTable[entities, d.entities]]),
                      [d \in {x \in similar_queries : has_entities(x)} |->
                          SimilarityTable[entities, d.entities]],
                      made)

\* the exact check on cached_doc, the document find_one returned (NoDoc: none):
\* the method returns, or goes on to the scan ("scan")
ExactCheck(coll, cached_doc, fault, t, ttl) ==
    IF fault.at = 1
    THEN [coll |-> coll, ret |-> Handled(fault.err, "None"), resp |-> NoResponse,
          path |-> "error", hit |-> NoDoc, calls |-> <<"find_one">>]
    ELSE IF cached_doc = NoDoc
    THEN [coll |-> coll, ret |-> "None", resp |-> NoResponse,
          path |-> "scan", hit |-> NoDoc, calls |-> <<"find_one">>]
    ELSE IF still_valid(cached_doc, t, ttl)
    THEN [coll |-> coll, ret |-> "response", resp |-> cached_doc.response,
          path |-> "exact", hit |-> cached_doc, calls |-> <<"find_one">>]
    ELSE IF fault.at = 2
    THEN [coll |-> coll, ret |-> Handled(fault.err, "None"), resp |-> NoResponse,
          path |-> "error", hit |-> NoDoc, calls |-> <<"find_one", "delete_one">>]
    ELSE [coll |-> coll \ {cached_doc}, ret |-> "None", resp |-> NoResponse,
          path |-> "scan", hit |-> NoDoc, calls |-> <<"find_one", "delete_one">>]

\* variant of the exact check: the lookup by hash finds nothing
find_one_nothing(coll, query_hash) == {NoDoc}

\* find_one({"query_hash": query_hash}): the documents it can return
find_one(coll, query_hash) ==
    IF \E d \in coll : d.query_hash = query_hash
    THEN {d \in coll : d.query_hash = query_hash}
    ELSE {NoDoc}

GetCachedResponseOutcomes(coll, query, intent, fault, t, ttl) ==
    UNION { IF e.path = "scan"
            THEN SemanticScan(e.coll, EntitiesTable[query],
                              {d \in e.coll : similar_filter(d, intent, t, ttl)},
                              fault, Append(e.calls, "find"))
            ELSE {e}
            : e \in {ExactCheck(coll, cached_doc, fault, t, ttl) :
                        cached_doc \in find_one(coll, HashTable[query, intent])} }

get_cached_response(query, intent, fault) ==
    /\ phase = "ready"
    /\ last = NoCall
    /\ IF bypassed
       THEN /\ fault = NoFault
            /\ store' = store
            /\ last' = [NoCall EXCEPT !.op = "get_cached_response", !.pre = store, !.query = query,
                           !.intent = intent,
                           !.ret = "None", !.path = "bypass"]
       ELSE \E o \in GetCachedResponseOutcomes(store, query, intent, fault, now, CACHE_TTL) :
                /\ fault # NoFault => o.path = "error"
                /\ store' = o.coll
                /\ last' = [NoCall EXCEPT !.op = "get_cached_response", !.pre = store, !.query = query,
                               !.intent = intent,
                               !.ret = o.ret, !.resp = o.resp, !.path = o.path,
                               !.hit = o.hit, !.calls = o.calls]
    /\ UNCHANGED <<phase, collection_none, connection_error, CACHE_ENABLED, CACHE_TTL, now, other_vars>>

\* ------------------------------------------------------------------------
\* clear_cache
\* ------------------------------------------------------------------------
clear_cache(older_than_hours, fault) ==
    /\ phase = "ready"
    /\ last = NoCall
    /\ IF collection_none
       THEN /\ fault = NoFault
            /\ store' = store
            /\ last' = [NoCall EXCEPT !.op = "clear_cache", !.pre = store, !.hours = older_than_hours,
                           !.ret = "count", !.count = 0,
                           !.path = "bypass"]
       ELSE IF fault.at = 1
       THEN /\ store' = store
            /\ last' = [NoCall EXCEPT !.op = "clear_cache", !.pre = store, !.hours = older_than_hours,

                           !.ret = Handled(fault.err, "count"), !.count = 0,
                           !.path = "error", !.calls = <<"delete_many">>]
       ELSE LET deleted == older_than(store, now, older_than_hours)
            IN  /\ fault = NoFault
                /\ store' = store \ deleted
                /\ last' = [NoCall EXCEPT !.op = "clear_cache", !.pre = store, !.hours = older_than_hours,
                               !.ret = "count",
                               !.count = Cardinality(deleted), !.path = "cleared",
                               !.calls = <<"delete_many">>]
    /\ UNCHANGED <<phase, collection_none, connection_error, CACHE_ENABLED, CACHE_TTL, now, other_vars>>

\* ------------------------------------------------------------------------
\* get_cache_stats
\* ------------------------------------------------------------------------
stats_calls == <<"count_documents", "aggregate", "find_one", "find_one">>

\* the record get_cache_stats returns; None is -1 for the two timestamps
cache_stats(coll, ttl) ==
    LET times == {d.created_at : d \in coll}
    IN  [total_entries |-> Cardinality(coll),
         intent_distribution |->
             [i \in {d.intent : d \in coll} |-> Cardinality({d \in coll : d.intent = i})],
         oldest_entry |-> IF times = {} THEN -1
                          ELSE CHOOSE t \in times : \A u \in times : t <= u,
         newest_entry |-> IF times = {} THEN -1
                          ELSE CHOOSE t \in times : \A u \in times : t >= u,
         cache_ttl_seconds |-> ttl]

get_cache_stats(fault) ==
    /\ phase = "ready"
    /\ last = NoCall
    /\ store' = store
    /\ IF collection_none
       THEN /\ fault = NoFault
            /\ last' = [NoCall EXCEPT !.op = "get_cache_stats", !.pre = store,
                           !.ret = "error", !.stats = [error |-> "Cache not available"],
                           !.path = "bypass"]
       ELSE IF fault.at \in DOMAIN stats_calls
       THEN last' = [NoCall EXCEPT !.op = "get_cache_stats", !.pre = store,
                        !.ret = Handled(fault.err, "error"),
                        !.stats = [error |-> "str(e)"], !.path = "error",
                        !.calls = SubSeq(stats_calls, 1, fault.at)]
       ELSE /\ fault = NoFault
            /\ last' = [NoCall EXCEPT !.op = "get_cache_stats", !.pre = store,
                           !.ret = "stats", !.stats = cache_stats(store, CACHE_TTL),
                           !.path = "counted", !.calls = stats_calls]
    /\ UNCHANGED <<phase, collection_none, connection_error, CACHE_ENABLED, CACHE_TTL, now, other_vars>>

\* ------------------------------------------------------------------------
\* The caller takes the returned value; requests are handled one at a time
\* ------------------------------------------------------------------------
Return ==
    /\ last # NoCall
    /\ last' = NoCall
    /\ UNCHANGED <<phase, collection_none, connection_error, CACHE_ENABLED, CACHE_TTL, store, now, other_vars>>

\* ------------------------------------------------------------------------
\* The environment: the clock, and MongoDB's TTL monitor on the created_at
\* index that _connect creates with expireAfterSeconds = CACHE_TTL
\* ------------------------------------------------------------------------
Tick ==
    /\ now < MaxTime
    /\ last = NoCall
    /\ now' = now + 1
    /\ UNCHANGED <<phase, collection_none, connection_error, CACHE_ENABLED, CACHE_TTL, store, last, other_vars>>

\* the documents the monitor may remove: created_at <= now - expireAfterSeconds
ttl_index_expired(coll, t, expireAfterSeconds) ==
    {d \in coll : d.created_at * SecondsPerHour <= t * SecondsPerHour - expireAfterSeconds}

TTLMonitor ==
    /\ phase = "ready"
    /\ ~collection_none
    /\ ttl_index_expired(store, now, CACHE_TTL) # {}
    /\ last = NoCall
    /\ store' = store \ ttl_index_expired(store, now, CACHE_TTL)
    /\ UNCHANGED <<phase, collection_none, connection_error, CACHE_ENABLED, CACHE_TTL, now, last, other_vars>>

\* ------------------------------------------------------------------------
\* Specification
\* ------------------------------------------------------------------------
Next ==
    \/ \E outcome \in ConnectOutcomes : _connect(outcome)
    \/ \E q \in Queries, i \in Intents, f \in Faults(3) : get_cached_response(q, i, f)
    \/ \E q \in Queries, i \in Intents, r \in Responses, f \in Faults(1) :
           cache_response(q, i, r, f)
    \/ \E h \in 0..MaxClearHours, f \in Faults(1) : clear_cache(h, f)
    \/ \E f \in Faults(Len(stats_calls)) : get_cache_stats(f)
    \/ Return
    \/ Tick
    \/ TTLMonitor

Spec == Init /\ [][Next]_vars

\* the same instance, called with the queries of the semantic-match example
NextExample ==
    \/ \E outcome \in ConnectOutcomes : _connect(outcome)
    \/ \E q \in ExampleQueries, i \in Intents, f \in Faults(3) : get_cached_response(q, i, f)
    \/ \E q \in ExampleQueries, i \in Intents, r \in Responses, f \in Faults(1) :
           cache_response(q, i, r, f)
    \/ \E h \in 0..MaxClearHours, f \in Faults(1) : clear_cache(h, f)
    \/ \E f \in Faults(Len(stats_calls)) : get_cache_stats(f)
    \/ Return
    \/ Tick
    \/ TTLMonitor

SpecExample == Init /\ [][NextExample]_vars

\* ------------------------------------------------------------------------
\* An instance started with another CACHE_TTL than the instance that wrote the
\* entries of the collection (Config reads CACHE_TTL from the environment of
\* each process)
\* ------------------------------------------------------------------------
InitReconfigured ==
    /\ phase = "new"
    /\ collection_none = TRUE
    /\ connection_error = "none"
    /\ CACHE_ENABLED \in BOOLEAN
    /\ CACHE_TTL \in TTLValues
    /\ store \in UNION {PersistedStores(written_ttl) : written_ttl \in TTLValues}
    /\ now = 0
    /\ last = NoCall
    /\ args = NoArgs
    /\ returned = NoResult
    /\ video_store = {}
    /\ video_last = NoVideoCall
    /\ pending = NoWriters
    /\ applied = NoneApplied
    /\ found = NoWriters

SpecReconfigured == InitReconfigured /\ [][Next]_vars

\* ------------------------------------------------------------------------
\* A collection that holds a record of an older format, without the entities
\* field (the scan's doc.get('entities') test, cache.py:215)
\* ------------------------------------------------------------------------
old_format_doc(ttl) ==
    [query_hash |-> <<"old-format", "::", "AAPL", " ", "price">>,
     original_query |-> <<"AAPL", "price">>,
     intent |-> "price_movement",
     response |-> [analysis |-> "a0"],
     created_at |-> 0,
     cache_ttl |-> ttl]

InitOldFormat ==
    /\ phase = "new"
    /\ collection_none = TRUE
    /\ connection_error = "none"
    /\ CACHE_ENABLED \in BOOLEAN
    /\ CACHE_TTL \in TTLValues
    /\ store \in {coll \cup {old_format_doc(CACHE_TTL)} : coll \in PersistedStores(CACHE_TTL)}
    /\ now = 0
    /\ last = NoCall
    /\ args = NoArgs
    /\ returned = NoResult
    /\ video_store = {}
    /\ video_last = NoVideoCall
    /\ pending = NoWriters
    /\ applied = NoneApplied
    /\ found = NoWriters

SpecOldFormat == InitOldFormat /\ [][Next]_vars

\* ------------------------------------------------------------------------
\* The helpers of QueryCache, called on their own
\* ------------------------------------------------------------------------
\* tokens with capitals, punctuation, stop words, a number, a company name,
\* an action
Vocabulary == {"The", "AAPL", "price?", "what's", "is", "today", "100", "tesla", "rising"}

\* the texts of at most MaxWords tokens ("" is the empty sequence)
Texts == UNION {[1..n -> Vocabulary] : n \in 0..MaxWords}

\* entity records as _extract_key_entities builds them: the seven buckets,
\* each a list
EntityRecords ==
    {[companies |-> c, locations |-> l, topics |-> t, time_periods |-> p,
      keywords |-> k, actions |-> a, numbers |-> n] :
        c \in {<<>>, <<"apple">>, <<"tesla">>, <<"apple", "tesla">>},
        l \in {<<>>, <<"usa">>},
        t \in {<<>>, <<"price">>, <<"price", "stocks">>},
        p \in {<<>>, <<"today">>},
        k \in {<<>>, <<"aapl">>},
        a \in {<<>>, <<"rising">>},
        n \in {<<>>, <<"100">>}}

HelperArgs ==
    {[fn |-> "_calculate_similarity", entities1 |-> e1, entities2 |-> e2] :
        e1 \in EntityRecords, e2 \in EntityRecords}
    \cup {[fn |-> "_normalize_query", query |-> x] : x \in Texts}
    \cup {[fn |-> "_generate_semantic_key", query |-> x, intent |-> i] :
        x \in Texts, i \in Intents}
    \cup {[fn |-> "_extract_key_entities", query |-> x] : x \in Texts}

\* no instance is at work; the arguments of one helper call are chosen
InitHelpers ==
    /\ phase = "new"
    /\ collection_none = TRUE
    /\ connection_error = "none"
    /\ CACHE_ENABLED = TRUE
    /\ CACHE_TTL = SecondsPerHour
    /\ store = {}
    /\ now = 0
    /\ last = NoCall
    /\ args \in HelperArgs
    /\ returned = NoResult
    /\ video_store = {}
    /\ video_last = NoVideoCall
    /\ pending = NoWriters
    /\ applied = NoneApplied
    /\ found = NoWriters

\* score = self._calculate_similarity(entities1, entities2)
call_calculate_similarity ==
    /\ args.fn = "_calculate_similarity"
    /\ returned = NoResult
    /\ returned' = [score |-> _calculate_similarity(args.entities1, args.entities2)]
    /\ UNCHANGED <<cache_vars, args, video_vars, writer_vars>>

\* normalized = self._normalize_query(query), and the helper again on what it returned
call_normalize_query ==
    /\ args.fn = "_normalize_query"
    /\ returned = NoResult
    /\ returned' = [normalized |-> _normalize_query(args.query),
                    again |-> _normalize_query(_normalize_query(args.query))]
    /\ UNCHANGED <<cache_vars, args, video_vars, writer_vars>>

\* self._generate_semantic_key(query, intent), twice
call_generate_semantic_key ==
    /\ args.fn = "_generate_semantic_key"
    /\ returned = NoResult
    /\ returned' = [key |-> _generate_semantic_key(args.query, args.intent),
                    again |-> _generate_semantic_key(args.query, args.intent)]
    /\ UNCHANGED <<cache_vars, args, video_vars, writer_vars>>

\* entities = self._extract_key_entities(query), with the words it worked on
call_extract_key_entities ==
    /\ args.fn = "_extract_key_entities"
    /\ returned = NoResult
    /\ returned' = [entities |-> _extract_key_entities(args.query),
                    words |-> _normalize_query(args.query)]
    /\ UNCHANGED <<cache_vars, args, video_vars, writer_vars>>

NextHelpers ==
    \/ call_calculate_similarity
    \/ call_normalize_query
    \/ call_generate_semantic_key
    \/ call_extract_key_entities

SpecHelpers == InitHelpers /\ [][NextHelpers]_vars

\* ------------------------------------------------------------------------
\* VideoCache (src/tools/video_cache.py)
\* ------------------------------------------------------------------------
\* two addresses of one video: different strings
VideoUrls == {"https://youtu.be/abc", "https://www.youtube.com/watch?v=abc"}

\* (video_info, transcript, analysis) handed to cache_video_data
VideoPayloads ==
    { [video_info |-> [title |-> "first cut"], transcript |-> [text |-> "t1"],
       analysis |-> [summary |-> "s1"]],
      [video_info |-> [title |-> "second cut", channel |-> "c2"], transcript |-> [text |-> "t2"],
       analysis |-> [summary |-> "s2"]] }

\* len(text) for the transcripts of the model
TextLength == [t1 |-> 2, t2 |-> 2]

\* The MD5 digest is taken as injective: the hash is the URL string itself.
_generate_video_hash(video_url) == video_url

\* dict.get(key, default)
get_or(dict, key, default) == IF key \in DOMAIN dict THEN dict[key] ELSE default

\* the document cache_video_data builds
video_cache_doc(video_url, video_info, transcript, analysis, t, ttl) ==
    [video_hash |-> _generate_video_hash(video_url),
     video_url |-> video_url,
     video_info |-> video_info,
     transcript |-> transcript,
     analysis |-> analysis,
     created_at |-> t,
     cache_ttl |-> ttl,
     metadata |-> [title |-> get_or(video_info, "title", "Unknown"),
                   channel |-> get_or(video_info, "channel", "Unknown"),
                   duration |-> get_or(video_info, "duration", 0),
                   view_count |-> get_or(video_info, "view_count", 0),
                   transcript_length |-> IF "text" \in DOMAIN transcript
                                         THEN TextLength[transcript.text] ELSE 0,
                   word_count |-> get_or(transcript, "word_count", 0)]]

\* VideoCache._connect: the same steps as QueryCache._connect, on the video collection
video_connect(outcome) ==
    /\ phase = "new"
    /\ connection_error' = outcome
    /\ IF outcome = "ok"
       THEN phase' = "ready" /\ collection_none' = FALSE
       ELSE IF outcome \in {"ConnectionFailure", "ServerSelectionTimeoutError"}
       THEN phase' = "ready" /\ collection_none' = TRUE
       ELSE phase' = "raised" /\ collection_none' = TRUE
    /\ UNCHANGED <<CACHE_ENABLED, CACHE_TTL, store, now, last, other_vars>>

\* collection.update_one({"video_hash": h}, {"$set": doc}, upsert=True)
video_update_one(coll, h, doc) ==
    IF \E d \in coll : d.video_hash = h
    THEN [coll |-> {d \in coll : d.video_hash # h} \cup {doc}, upserted |-> FALSE,
          modified_count |-> IF doc \in coll THEN 0 ELSE 1]
    ELSE [coll |-> coll \cup {doc}, upserted |-> TRUE, modified_count |-> 0]

\* variant of the validity test of get_cached_video: age <= CACHE_TTL
video_still_valid_at_ttl(d, t, ttl) == (t - d.created_at) * SecondsPerHour <= ttl

\* age.total_seconds() < self.config.CACHE_TTL
video_still_valid(d, t, ttl) == (t - d.created_at) * SecondsPerHour < ttl

\* the dict get_cached_video returns on a hit
video_data(cached_doc) ==
    [video_info |-> cached_doc.video_info,
     transcript |-> cached_doc.transcript,
     analysis |-> cached_doc.analysis,
     cached_at |-> cached_doc.created_at]

\* what get_cached_video does once find_one has returned cached_doc (NoDoc: none)
VideoLookup(coll, cached_doc, fault, t, ttl) ==
    IF fault.at = 1
    THEN [coll |-> coll, ret |-> Handled(fault.err, "None"), data |-> NoResponse,
          path |-> "error", hit |-> NoDoc, calls |-> <<"find_one">>]
    ELSE IF cached_doc = NoDoc
    THEN [coll |-> coll, ret |-> "None", data |-> NoResponse,
          path |-> "miss", hit |-> NoDoc, calls |-> <<"find_one">>]
    ELSE IF video_still_valid(cached_doc, t, ttl)
    THEN [coll |-> coll, ret |-> "data", data |-> video_data(cached_doc),
          path |-> "hit", hit |-> cached_doc, calls |-> <<"find_one">>]
    ELSE IF fault.at = 2
    THEN [coll |-> coll, ret |-> Handled(fault.err, "None"), data |-> NoResponse,
          path |-> "error", hit |-> NoDoc, calls |-> <<"find_one", "delete_one">>]
    ELSE [coll |-> {d \in coll : d.video_hash # cached_doc.video_hash},
          ret |-> "None", data |-> NoResponse,
          path |-> "expired", hit |-> NoDoc, calls |-> <<"find_one", "delete_one">>]

\* find_one({"video_hash": video_hash}): the documents it can return
video_find_one(coll, video_hash) ==
    IF \E d \in coll : d.video_hash = video_hash
    THEN {d \in coll : d.video_hash = video_hash}
    ELSE {NoDoc}

get_cached_video(video_url, fault) ==
    /\ phase = "ready"
    /\ video_last = NoVideoCall
    /\ IF bypassed
       THEN /\ fault = NoFault
            /\ video_store' = video_store
            /\ video_last' = [NoVideoCall EXCEPT !.op = "get_cached_video",
                                 !.pre = video_store, !.video_url = video_url,
                                 !.ret = "None", !.path = "bypass"]
       ELSE \E cached_doc \in video_find_one(video_store, _generate_video_hash(video_url)) :
              LET o == VideoLookup(video_store, cached_doc, fault, now, CACHE_TTL)
              IN  /\ fault # NoFault => o.path = "error"
                  /\ video_store' = o.coll
                  /\ video_last' = [NoVideoCall EXCEPT !.op = "get_cached_video",
                                       !.pre = video_store, !.video_url = video_url,
                                       !.ret = o.ret, !.data = o.data, !.path = o.path,
                                       !.hit = o.hit, !.calls = o.calls]
    /\ UNCHANGED <<cache_vars, helper_vars, writer_vars>>

cache_video_data(video_url, video_info, transcript, analysis, fault) ==
    /\ phase = "ready"
    /\ video_last = NoVideoCall
    /\ IF bypassed
       THEN /\ fault = NoFault
            /\ video_store' = video_store
            /\ video_last' = [NoVideoCall EXCEPT !.op = "cache_video_data",
                                 !.pre = video_store, !.video_url = video_url,
                                 !.payload = [video_info |-> video_info,
                                              transcript |-> transcript,
                                              analysis |-> analysis],
                                 !.ret = "False", !.path = "bypass"]
       ELSE IF fault.at = 1
       THEN /\ video_store' = video_store
            /\ video_last' = [NoVideoCall EXCEPT !.op = "cache_video_data",
                                 !.pre = video_store, !.video_url = video_url,
                                 !.payload = [video_info |-> video_info,
                                              transcript |-> transcript,
                                              analysis |-> analysis],
                                 !.ret = Handled(fault.err, "False"), !.path = "error",
                                 !.calls = <<"update_one">>]
       ELSE LET written == video_update_one(
                               video_store, _generate_video_hash(video_url),
                               video_cache_doc(video_url, video_info, transcript, analysis,
                                               now, CACHE_TTL))
            IN  /\ fault = NoFault
                /\ video_store' = written.coll
                /\ video_last' = [NoVideoCall EXCEPT !.op = "cache_video_data",
                                     !.pre = video_store, !.video_url = video_url,
                                     !.payload = [video_info |-> video_info,
                                                  transcript |-> transcript,
                                                  analysis |-> analysis],
                                     !.ret = IF written.upserted \/ written.modified_count > 0
                                             THEN "True" ELSE "False",
                                     !.path = "written", !.calls = <<"update_one">>]
    /\ UNCHANGED <<cache_vars, helper_vars, writer_vars>>

clear_video_cache(older_than_hours, fault) ==
    /\ phase = "ready"
    /\ video_last = NoVideoCall
    /\ IF collection_none
       THEN /\ fault = NoFault
            /\ video_store' = video_store
            /\ video_last' = [NoVideoCall EXCEPT !.op = "clear_video_cache",
                                 !.pre = video_store, !.hours = older_than_hours,
                                 !.ret = "count", !.path = "bypass"]
       ELSE IF fault.at = 1
       THEN /\ video_store' = video_store
            /\ video_last' = [NoVideoCall EXCEPT !.op = "clear_video_cache",
                                 !.pre = video_store, !.hours = older_than_hours,
                                 !.ret = Handled(fault.err, "count"), !.path = "error",
                                 !.calls = <<"delete_many">>]
       ELSE /\ fault = NoFault
            /\ video_store' = video_store \ older_than(video_store, now, older_than_hours)
            /\ video_last' = [NoVideoCall EXCEPT !.op = "clear_video_cache",
                                 !.pre = video_store, !.hours = older_than_hours,
                                 !.ret = "count",
                                 !.count = Cardinality(older_than(video_store, now,
                                                                  older_than_hours)),
                                 !.path = "cleared", !.calls = <<"delete_many">>]
    /\ UNCHANGED <<cache_vars, helper_vars, writer_vars>>

\* the caller takes what the VideoCache call returned
VideoReturn ==
    /\ video_last # NoVideoCall
    /\ video_last' = NoVideoCall
    /\ UNCHANGED <<cache_vars, helper_vars, writer_vars, video_store>>

VideoTick ==
    /\ now < MaxTime
    /\ video_last = NoVideoCall
    /\ now' = now + 1
    /\ UNCHANGED <<phase, collection_none, connection_error, CACHE_ENABLED, CACHE_TTL, store,
                   last, other_vars>>

\* MongoDB's TTL monitor on the created_at index of the video collection
VideoTTLMonitor ==
    /\ phase = "ready"
    /\ ~collection_none
    /\ video_last = NoVideoCall
    /\ ttl_index_expired(video_store, now, CACHE_TTL) # {}
    /\ video_store' = video_store \ ttl_index_expired(video_store, now, CACHE_TTL)
    /\ UNCHANGED <<cache_vars, helper_vars, writer_vars, video_last>>

NextVideo ==
    \/ \E outcome \in ConnectOutcomes : video_connect(outcome)
    \/ \E u \in VideoUrls, f \in Faults(2) : get_cached_video(u, f)
    \/ \E u \in VideoUrls, p \in VideoPayloads, f \in Faults(1) :
           cache_video_data(u, p.video_info, p.transcript, p.analysis, f)
    \/ \E h \in 0..MaxClearHours, f \in Faults(1) : clear_video_cache(h, f)
    \/ VideoReturn
    \/ VideoTick
    \/ VideoTTLMonitor

SpecVideo == Init /\ [][NextVideo]_vars

\* ------------------------------------------------------------------------
\* Several process instances writing to the same collection.  Each instance
\* is single-threaded; between the instances the only atomic step is the
\* collection's update_one.  cache_response is therefore two steps: building
\* the document, which reads the clock (cache.py 294-309), and the update_one
\* with what follows it (cache.py 311-327).
\* ------------------------------------------------------------------------
\* the instances are constructed and connected, with the same configuration
InitWriters ==
    /\ phase = "ready"
    /\ collection_none = FALSE
    /\ connection_error = "ok"
    /\ CACHE_ENABLED = TRUE
    /\ CACHE_TTL \in TTLValues
    /\ store \in PersistedStores(CACHE_TTL)
    /\ now = 0
    /\ last = NoCall
    /\ args = NoArgs
    /\ returned = NoResult
    /\ video_store = {}
    /\ video_last = NoVideoCall
    /\ pending = NoWriters
    /\ applied = NoneApplied
    /\ found = NoWriters

\* what the writers are called with: two texts of one key, and another key
WriterQueries ==
    { <<"AAPL", "price", "today">>,
      <<"The", "AAPL", "price", "today">>,
      <<"AAPL", "price">> }

WriterIntents == {"price_movement"}

\* writer w enters cache_response and builds cache_doc
writer_build(w, query, intent, response) ==
    /\ phase = "ready"
    /\ ~bypassed
    /\ last = NoCall
    /\ pending[w] = NoDoc
    /\ found[w] = NoDoc
    /\ pending' = [pending EXCEPT ![w] = cache_doc(query, intent, response, now, CACHE_TTL)]
    /\ UNCHANGED <<cache_vars, helper_vars, video_vars, applied, found>>

\* the collection applies writer w's update_one, or the call raises (a
\* DuplicateKeyError of two racing upserts included); cache_response returns
writer_update(w, fault) ==
    /\ last = NoCall
    /\ pending[w] # NoDoc
    /\ LET doc == pending[w]
           result == update_one(store, doc.query_hash, doc)
       IN  IF fault.at = 1
           THEN /\ store' = store
                /\ applied' = applied
                /\ last' = [NoCall EXCEPT !.op = "cache_response", !.pre = store,
                               !.query = doc.original_query, !.intent = doc.intent,
                               !.response = doc.response,
                               !.ret = Handled(fault.err, "False"),
                               !.path = "error", !.calls = <<"update_one">>]
           ELSE /\ Cardinality(result.coll) <= MaxDocs
                /\ store' = result.coll
                /\ applied' = {d \in applied : d.query_hash # doc.query_hash} \cup {doc}
                /\ last' = [NoCall EXCEPT !.op = "cache_response", !.pre = store,
                               !.query = doc.original_query, !.intent = doc.intent,
                               !.response = doc.response,
                               !.ret = IF result.upserted \/ result.modified_count > 0
                                       THEN "True" ELSE "False",
                               !.path = "written", !.calls = <<"update_one">>]
    /\ pending' = [pending EXCEPT ![w] = NoDoc]
    /\ UNCHANGED <<phase, collection_none, connection_error, CACHE_ENABLED, CACHE_TTL, now,
                   helper_vars, video_vars, found>>

NextWriters ==
    \/ \E w \in Writers, query \in WriterQueries, intent \in WriterIntents,
             response \in Responses :
          writer_build(w, query, intent, response)
    \/ \E w \in Writers, fault \in Faults(1) : writer_update(w, fault)
    \/ Return
    \/ Tick

SpecWriters == InitWriters /\ [][NextWriters]_vars

\* ------------------------------------------------------------------------
\* Lookups of several process instances among the writers.  The lookup's
\* find_one and its delete_one are two calls to the collection; another
\* instance's update_one can be applied between them.  The scan reads only,
\* so it is taken together with the call before it.
\* ------------------------------------------------------------------------
\* collection.delete_one({"query_hash": query_hash})
delete_one(coll, query_hash) == {d \in coll : d.query_hash # query_hash}

\* instance w enters get_cached_response and calls find_one: on an expired
\* document it goes on to delete_one; otherwise the lookup runs to its end
reader_find(w, query, intent) ==
    /\ phase = "ready"
    /\ ~bypassed
    /\ last = NoCall
    /\ pending[w] = NoDoc
    /\ found[w] = NoDoc
    /\ \E cached_doc \in find_one(store, HashTable[query, intent]) :
          IF cached_doc # NoDoc /\ ~still_valid(cached_doc, now, CACHE_TTL)
          THEN /\ found' = [found EXCEPT ![w] = cached_doc]
               /\ UNCHANGED <<store, last>>
          ELSE /\ \E o \in GetCachedResponseOutcomes(store, query, intent, NoFault,
                                                    now, CACHE_TTL) :
                     /\ store' = o.coll
                     /\ last' = [NoCall EXCEPT !.op = "get_cached_response", !.pre = store,
                                    !.query = query, !.intent = intent,
                                    !.ret = o.ret, !.resp = o.resp, !.path = o.path,
                                    !.hit = o.hit, !.calls = o.calls]
               /\ found' = found
    /\ UNCHANGED <<phase, collection_none, connection_error, CACHE_ENABLED, CACHE_TTL, now,
                   helper_vars, video_vars, pending, applied>>

\* instance w deletes by the hash of the expired document it has read, scans
\* and returns
reader_delete(w) ==
    /\ last = NoCall
    /\ found[w] # NoDoc
    /\ LET coll == delete_one(store, found[w].query_hash)
       IN  \E o \in SemanticScan(coll, EntitiesTable[found[w].original_query],
                                  {d \in coll : similar_filter(d, found[w].intent, now, CACHE_TTL)},
                                  NoFault, <<"find_one", "delete_one", "find">>) :
               /\ store' = o.coll
               /\ last' = [NoCall EXCEPT !.op = "get_cached_response", !.pre = store,
                              !.query = found[w].original_query, !.intent = found[w].intent,
                              !.ret = o.ret, !.resp = o.resp, !.path = o.path,
                              !.hit = o.hit, !.calls = o.calls]
    /\ found' = [found EXCEPT ![w] = NoDoc]
    /\ UNCHANGED <<phase, collection_none, connection_error, CACHE_ENABLED, CACHE_TTL, now,
                   helper_vars, video_vars, pending, applied>>

NextLazyDelete ==
    \/ \E w \in Writers, query \in WriterQueries, intent \in WriterIntents,
             response \in Responses :
          writer_build(w, query, intent, response)
    \/ \E w \in Writers, fault \in Faults(1) : writer_update(w, fault)
    \/ \E w \in Writers, query \in WriterQueries, intent \in WriterIntents :
          reader_find(w, query, intent)
    \/ \E w \in Writers : reader_delete(w)
    \/ Return
    \/ Tick

SpecLazyDelete == InitWriters /\ [][NextLazyDelete]_vars

\* ------------------------------------------------------------------------
\* Properties
\* ------------------------------------------------------------------------
get_returned == last.op = "get_cached_response"
put_returned == last.op = "cache_response"

\* the call ran past its guard and no backend call of it raised
ran_normally == last.path \notin {"none", "bypass", "error"}

\* age of document d, in seconds
age(d) == (now - d.created_at) * SecondsPerHour

\* the entries of the key of the last call's (query, intent), before the call
keyed_before == {d \in last.pre : d.query_hash = HashTable[last.query, last.intent]}

\* C1: exact-match round trip.  With the backend available and caching
\* enabled, a cache_response(q, i, R) that succeeds leaves the entry of the
\* key of (q, i) holding R, stamped now; and a get_cached_response(q, i) that
\* finds the entry of its key younger than the TTL returns exactly the
\* response held by that entry (which is the R of the last write to the key).
C1_ExactRoundTrip ==
    /\ (put_returned /\ last.ret = "True") =>
           \E d \in store :
               /\ d.query_hash = HashTable[last.query, last.intent]
               /\ d.response = last.response
               /\ d.created_at = now
    /\ (get_returned /\ ran_normally) =>
           \A d \in keyed_before :
               age(d) < CACHE_TTL => (last.ret = "response" /\ last.resp = d.response)

\* a lookup an hour after the write, inside the TTL, answered from the entry of its key
C1_Witness ==
    /\ get_returned /\ last.path = "exact"
    /\ last.hit.created_at < now
    /\ last.resp = [analysis |-> "a1"]

\* C2: intent partition.  Whatever get_cached_response(q, i) returns, by the
\* exact path or by the semantic scan, comes from an entry written under
\* intent i.
C2_IntentPartition ==
    (get_returned /\ last.ret = "response") => last.hit.intent = last.intent

\* a lookup that is answered while a valid entry with the same query text
\* sits under another intent
C2_Witness ==
    /\ get_returned /\ last.ret = "response"
    /\ \E d \in last.pre :
           /\ d.original_query = last.query
           /\ d.intent # last.intent
           /\ age(d) < CACHE_TTL

C4_NoExpiredEntryReturned ==
    (get_returned /\ last.ret = "response") => age(last.hit) < CACHE_TTL

\* C5 as stated: cache_response with a response that has an "error" key
\* leaves the store as it was, and no entry of the store holds such a payload.
C5_ErrorPayloadNotCached ==
    /\ (put_returned /\ "error" \in DOMAIN last.response) => store = last.pre
    /\ \A d \in store : "error" \notin DOMAIN d.response

\* C6 as stated: total_entries of get_cache_stats is the number of entries of
\* the store whose age has not reached the TTL.
C6_StatsCountNonExpired ==
    (last.op = "get_cache_stats" /\ last.ret = "stats") =>
        last.stats.total_entries = Cardinality({d \in store : age(d) < CACHE_TTL})

\* C7: key uniqueness.  In every state the store holds at most one entry per
\* query_hash, and a cache_response on a key that has an entry replaces that
\* entry: the store does not grow.
C7_KeyUnique ==
    /\ \A d, e \in store : d.query_hash = e.query_hash => d = e
    /\ (put_returned /\ ran_normally /\ keyed_before # {}) =>
           /\ Cardinality(store) = Cardinality(last.pre)
           /\ \A d \in store :
                  d.query_hash = HashTable[last.query, last.intent] =>
                      /\ d.original_query = last.query
                      /\ d.response = last.response
                      /\ d.created_at = now

\* a write on a key whose entry held another payload
C7_Witness ==
    /\ put_returned /\ last.ret = "True"
    /\ \E d \in keyed_before : d.response # last.response
    /\ Cardinality(store) = Cardinality(last.pre)

\* C8: with CACHE_ENABLED false, get_cached_response returns None and
\* cache_response returns False, no backend call is made and the store is
\* what it was.
C8_DisabledBypass ==
    (~CACHE_ENABLED /\ (get_returned \/ put_returned)) =>
        /\ last.ret = (IF get_returned THEN "None" ELSE "False")
        /\ last.calls = <<>>
        /\ store = last.pre

\* a lookup with caching disabled, on a connected instance, of a query whose
\* entry is in the collection
C8_Witness ==
    /\ ~CACHE_ENABLED /\ ~collection_none
    /\ get_returned
    /\ \E d \in keyed_before : age(d) < CACHE_TTL

\* C9: failure semantics.  When a backend call of a public method raises, the
\* method returns its sentinel: None for get_cached_response, False for
\* cache_response, 0 for clear_cache, a record with an "error" key for
\* get_cache_stats; no call ends by raising.
C9_FailureSentinel ==
    /\ last.ret # "raise"
    /\ last.path = "error" =>
           /\ last.op = "get_cached_response" => last.ret = "None"
           /\ last.op = "cache_response" => last.ret = "False"
           /\ last.op = "clear_cache" => (last.ret = "count" /\ last.count = 0)
           /\ last.op = "get_cache_stats" =>
                  (last.ret = "error" /\ "error" \in DOMAIN last.stats)

\* a lookup whose delete_one raised an error that is not a connection error
C9_Witness ==
    /\ get_returned /\ last.path = "error"
    /\ last.calls = <<"find_one", "delete_one">>
    /\ last.ret = "None"

\* C10: backend unavailable at construction.  When connecting fails with
\* ConnectionFailure or ServerSelectionTimeoutError, construction ends
\* without raising, the instance has no collection from then on, and every
\* public call returns its sentinel without a backend call.
C10_UnavailablePassThrough ==
    connection_error \in {"ConnectionFailure", "ServerSelectionTimeoutError"} =>
        /\ phase = "ready"
        /\ collection_none
        /\ last.calls = <<>>
        /\ store = last.pre \/ last = NoCall
        /\ last.op = "get_cached_response" => last.ret = "None"
        /\ last.op = "cache_response" => last.ret = "False"
        /\ last.op = "clear_cache" => (last.ret = "count" /\ last.count = 0)
        /\ last.op = "get_cache_stats" =>
               (last.ret = "error" /\ "error" \in DOMAIN last.stats)

\* hours after a server-selection timeout at construction, with caching
\* enabled, a write is refused
C10_Witness ==
    /\ connection_error = "ServerSelectionTimeoutError"
    /\ CACHE_ENABLED
    /\ now = MaxTime
    /\ put_returned /\ last.ret = "False"

\* ------------------------------------------------------------------------
\* The semantic-match example
\* ------------------------------------------------------------------------
PriceOfAAPLStock == <<"what", "is", "the", "price", "of", "AAPL", "stock">>
AAPLStockPriceToday == <<"AAPL", "stock", "price", "today">>

\* the lookup of "AAPL stock price today" under price_movement has returned,
\* past its guard and without a backend error, and the key of the query
\* itself had no entry younger than the TTL
example_lookup ==
    /\ get_returned /\ ran_normally
    /\ last.query = AAPLStockPriceToday /\ last.intent = "price_movement"
    /\ \A d \in keyed_before : age(d) >= CACHE_TTL

\* the non-expired entries of "what is the price of AAPL stock" under
\* price_movement, before the call
example_entries ==
    {d \in last.pre : /\ d.original_query = PriceOfAAPLStock
                      /\ d.intent = "price_movement"
                      /\ age(d) < CACHE_TTL}

\* the lookup is answered from entry d, with its response annotated cached = True
answered_from(d) ==
    /\ last.ret = "response" /\ last.hit = d
    /\ "cached" \in DOMAIN last.resp /\ last.resp.cached = "True"
    /\ \A k \in DOMAIN d.response : last.resp[k] = d.response[k]
    /\ 10 * last.resp.cache_similarity[1] >= 6 * last.resp.cache_similarity[2]

\* C11: given a non-expired entry for "what is the price of AAPL
\* stock" under price_movement, the lookup of "AAPL stock price today" under
\* price_movement scores at least 0.6 against it, the two sharing the company
\* AAPL and the topics stock and price, and returns the entry's response
\* annotated with cached = True.
C11_SemanticMatchSharedCompany ==
    example_lookup =>
        \A d \in example_entries :
            /\ answered_from(d)
            /\ {"stock", "price"} \subseteq
                   Range(d.entities.topics) \cap Range(EntitiesTable[last.query].topics)
            /\ \E c \in Range(d.entities.companies) \cap
                           Range(EntitiesTable[last.query].companies) :
                   lower(c) = "aapl"

\* ------------------------------------------------------------------------
\* Properties of the helpers
\* ------------------------------------------------------------------------
similarity_returned == args.fn = "_calculate_similarity" /\ returned # NoResult

\* two scores are the same number
same_score(a, b) == a[1] * b[2] = b[1] * a[2]

\* C12: similarity symmetry.  For every pair of entity records A and B,
\* _calculate_similarity(A, B) is the number _calculate_similarity(B, A) is.
C12_SimilaritySymmetric ==
    similarity_returned =>
        same_score(returned.score, _calculate_similarity(args.entities2, args.entities1))

\* two records that differ, overlap in part, and disagree on which buckets are filled
C12_Witness ==
    /\ similarity_returned
    /\ args.entities1.companies = <<"apple">>
    /\ args.entities2.companies = <<"apple", "tesla">>
    /\ args.entities1.topics = <<>> /\ args.entities2.topics = <<"price">>
    /\ 0 < returned.score[1] /\ returned.score[1] < returned.score[2]

\* the buckets that carry a weight
weighted_buckets ==
    {"companies", "topics", "actions", "locations", "time_periods", "keywords"}

\* C13: similarity bounds.  For every pair of entity records the score is at
\* least 0 and at most 1, also when the company bonus and the topic bonus are
\* added, and it is 0 when every weighted bucket is empty on both sides.
C13_SimilarityBounds ==
    similarity_returned =>
        /\ returned.score[2] > 0
        /\ 0 <= returned.score[1]
        /\ returned.score[1] <= returned.score[2]
        /\ (\A b \in weighted_buckets :
                args.entities1[b] = <<>> /\ args.entities2[b] = <<>>)
               => returned.score[1] = 0

\* both bonuses are added, and the records still differ in a weighted bucket
C13_Witness ==
    /\ similarity_returned
    /\ args.entities1.companies = <<"apple", "tesla">>
    /\ args.entities2.companies = <<"apple", "tesla">>
    /\ args.entities1.topics = <<"price">> /\ args.entities2.topics = <<"price">>
    /\ args.entities1.keywords # args.entities2.keywords
    /\ returned.score[1] < returned.score[2]

\* C14: similarity reflexivity.  For every entity record A with a token in at
\* least one of its seven buckets, _calculate_similarity(A, A) is 1.
C14_SimilarityReflexive ==
    (/\ similarity_returned
     /\ args.entities1 = args.entities2
     /\ \E b \in DOMAIN args.entities1 : args.entities1[b] # <<>>)
        => returned.score[1] = returned.score[2]

\* C15: semantic key determinism and intent separation.  Two calls of
\* _generate_semantic_key with the same query and intent return the same key,
\* and the key of the same query under any other intent is a different key
\* (the digest taken as injective on the joined string).
C15_KeyDeterministicPerIntent ==
    (args.fn = "_generate_semantic_key" /\ returned # NoResult) =>
        /\ returned.key = returned.again
        /\ \A j \in Intents \ {args.intent} :
               _generate_semantic_key(args.query, j) # returned.key

\* the key of a text of full length whose tokens normalization rewrites
C15_Witness ==
    /\ args.fn = "_generate_semantic_key" /\ returned # NoResult
    /\ Len(args.query) = MaxWords
    /\ args.query[1] = "The" /\ args.query[MaxWords] = "price?"
    /\ returned.key[1] = args.intent

\* C16: normalization idempotence.  For every text x,
\* _normalize_query(_normalize_query(x)) is _normalize_query(x), and the empty
\* text gives the empty string.
C16_NormalizeIdempotent ==
    (args.fn = "_normalize_query" /\ returned # NoResult) =>
        /\ returned.again = returned.normalized
        /\ args.query = <<>> => returned.normalized = <<>>

\* a text that normalization shortens: a stop word with a capital, and a
\* token whose punctuation splits it into a stop word and a rest
C16_Witness ==
    /\ args.fn = "_normalize_query" /\ returned # NoResult
    /\ "The" \in Range(args.query) /\ "what's" \in Range(args.query)
    /\ returned.normalized = <<"s">>

\* ------------------------------------------------------------------------
\* Properties of VideoCache
\* ------------------------------------------------------------------------
video_get_returned == video_last.op = "get_cached_video"

\* the entries of the key of the URL of the last call, before the call
video_keyed_before ==
    {d \in video_last.pre : d.video_hash = _generate_video_hash(video_last.video_url)}

\* the lookup returned the info, transcript and analysis of entry d
video_returned_from(d) ==
    /\ video_last.ret = "data"
    /\ video_last.data.video_info = d.video_info
    /\ video_last.data.transcript = d.transcript
    /\ video_last.data.analysis = d.analysis

\* what C17 says of a lookup that finds entry d under its key
video_round_trip(d) ==
    /\ age(d) < CACHE_TTL => video_returned_from(d)
    /\ age(d) >= CACHE_TTL => (video_last.ret = "None" /\ d \notin video_store)

\* a cache_video_data that returned True left the entry of the URL holding
\* its arguments, stamped now
video_written ==
    (video_last.op = "cache_video_data" /\ video_last.ret = "True") =>
        \E d \in video_store :
            /\ d.video_url = video_last.video_url
            /\ d.video_info = video_last.payload.video_info
            /\ d.transcript = video_last.payload.transcript
            /\ d.analysis = video_last.payload.analysis
            /\ d.created_at = now

\* whatever a lookup returns comes from the entry written under the same URL string
video_same_url ==
    (video_get_returned /\ video_last.ret = "data") =>
        video_last.hit.video_url = video_last.video_url

clear_returned == last.op = "clear_cache"

\* the entries created more than last.hours hours before now, before the call
swept_before == {d \in last.pre : age(d) > last.hours * SecondsPerHour}

\* the sweep removed exactly those entries and returned their number
swept_exactly ==
    /\ store = last.pre \ swept_before
    /\ last.ret = "count"
    /\ last.count = Cardinality(swept_before)

entries_of_key(coll, d) == {e \in coll : e.query_hash = d.query_hash}

\* cache_response has returned after its update_one was applied
writer_applied == last.op = "cache_response" /\ last.path = "written"

\* the entries the write replaced that an earlier call with the same query,
\* intent and payload had left
same_call_before ==
    {e \in last.pre : /\ e.query_hash = HashTable[last.query, last.intent]
                      /\ e.original_query = last.query
                      /\ e.response = last.response}

\* C19: while several process instances interleave cache_response, every key
\* that an update_one has been applied to has exactly one entry, the
\* document of the last update_one applied to it (last writer wins); and a
\* cache_response that repeats an earlier one (same query, intent and
\* payload) leaves that single entry, the same but for created_at.
C19_LastWriterWins ==
    /\ \A d \in applied : entries_of_key(store, d) = {d}
    /\ writer_applied =>
          \A e \in same_call_before :
              \E t \in 0..MaxTime : entries_of_key(store, e) = {[e EXCEPT !.created_at = t]}

\* two writers have interleaved on one key: the one that has just applied its
\* document built it before the entry it replaced was built, and the other's
\* payload differed
C19_Witness ==
    /\ writer_applied
    /\ \E d \in applied, e \in last.pre :
          /\ e.query_hash = d.query_hash
          /\ d.original_query = last.query
          /\ d.created_at < e.created_at
          /\ d.response # e.response
          /\ entries_of_key(store, d) = {d}

\* ------------------------------------------------------------------------
\* Properties of the semantic scan
\* ------------------------------------------------------------------------
\* the lookup went past the exact check without a hit and its scan ended
scan_returned == get_returned /\ last.path \in {"semantic", "miss"}

\* the entries of the lookup's intent that have not expired
live_same_intent == {d \in last.pre : d.intent = last.intent /\ age(d) < CACHE_TTL}

\* the similarity of the lookup's entities to those of entry d
scan_score(d) == SimilarityTable[EntitiesTable[last.query], d.entities]

\* the entries among S whose score is the maximum over S and at least 0.6
attaining_maximum(S) ==
    {d \in S : /\ 10 * scan_score(d)[1] >= 6 * scan_score(d)[2]
               /\ \A e \in S :
                     scan_score(e)[1] * scan_score(d)[2] <= scan_score(d)[1] * scan_score(e)[2]}

\* the returned response is that of entry d with the three annotations
annotated_from(d) ==
    /\ DOMAIN last.resp = DOMAIN d.response \cup {"cached", "cache_similarity", "original_query"}
    /\ last.resp.cached = "True"
    /\ last.resp.cache_similarity = scan_score(d)
    /\ last.resp.original_query = d.original_query
    /\ \A k \in DOMAIN d.response \ {"cached", "cache_similarity", "original_query"} :
          last.resp[k] = d.response[k]

\* C20 as stated: when the exact check does not hit, the lookup scores every
\* non-expired entry of its intent; if the maximum is at least 0.6 it returns
\* the response of an entry attaining the maximum, annotated with cached,
\* cache_similarity (that score) and original_query (that entry's text);
\* if the maximum is below 0.6, or there is no such entry, it returns null.
C20_SemanticScanResult ==
    scan_returned =>
        IF attaining_maximum(live_same_intent) # {}
        THEN /\ last.ret = "response"
             /\ last.hit \in attaining_maximum(live_same_intent)
             /\ annotated_from(last.hit)
        ELSE last.ret = "None"

\* ------------------------------------------------------------------------
\* Properties of the lookup as a state machine
\* ------------------------------------------------------------------------
\* the backend calls the lookup made
lookup_calls == {last.calls[k] : k \in DOMAIN last.calls}

\* C21: with the backend available and caching enabled, a lookup ends in
\* exactly one of HIT-EXACT, HIT-SEMANTIC and MISS, and the exact check comes
\* first: when an entry of the query's hash is younger than the TTL its stored
\* response is returned as it is and no scan is made; the scan is made only
\* after the exact check found nothing, or found an expired entry and
\* deleted it.
C21_LookupStateMachine ==
    (get_returned /\ ran_normally) =>
        /\ last.path \in {"exact", "semantic", "miss"}
        /\ last.path \in {"exact", "semantic"} <=> last.ret = "response"
        /\ last.path = "miss" <=> last.ret = "None"
        /\ last.calls[1] = "find_one"
        /\ \A d \in keyed_before :
              age(d) < CACHE_TTL =>
                  /\ last.path = "exact"
                  /\ last.resp = d.response
                  /\ "find" \notin lookup_calls
        /\ "find" \in lookup_calls =>
              \/ keyed_before = {} /\ last.calls = <<"find_one", "find">>
              \/ /\ \E d \in keyed_before : age(d) >= CACHE_TTL /\ d \notin store
                 /\ last.calls = <<"find_one", "delete_one", "find">>

\* a lookup whose key held an expired entry: the entry was deleted, the scan
\* followed and found another entry of the intent
C21_Witness ==
    /\ get_returned /\ last.path = "semantic"
    /\ last.calls = <<"find_one", "delete_one", "find">>
    /\ \E d \in keyed_before : age(d) >= CACHE_TTL /\ d \notin store

\* ------------------------------------------------------------------------
\* Properties of entity extraction and of the key
\* ------------------------------------------------------------------------
extract_returned == args.fn = "_extract_key_entities" /\ returned # NoResult

\* the buckets, in the stated order of precedence
precedence ==
    <<"companies", "time_periods", "locations", "numbers", "actions", "topics", "keywords">>

\* the buckets of the returned record that hold token w
buckets_holding(w) ==
    {b \in Range(precedence) : w \in Range(returned.entities[b])}

\* token w is counted as a topic: it is a topic name, a synonym of one, or a
\* keyword of one of the financial topics
counted_as_topic(w) ==
    \/ \E k \in DOMAIN financial_synonyms :
          w = financial_synonyms[k][1] \/ w \in financial_synonyms[k][2]
    \/ \E k \in DOMAIN financial_topics : w \in financial_topics[k][2]

\* C22 as stated: every token of the normalized query lands in exactly one
\* bucket, and a token counted as a topic (price, stock) is in no bucket
\* after topics in the precedence, keywords in particular.
C22_OneBucketPerToken ==
    extract_returned =>
        \A w \in Range(returned.words) :
            /\ Cardinality(buckets_holding(w)) = 1
            /\ counted_as_topic(w) => w \notin Range(returned.entities.keywords)

\* C23 as stated: a token of the query that is all uppercase, alphabetic and
\* of length 1 to 5 is placed in the companies bucket (as written, or in the
\* lowercase the normalization gives it).
C23_TickerInCompanies ==
    extract_returned =>
        \A k \in DOMAIN args.query :
            IsTickerShaped(args.query[k]) =>
                \/ args.query[k] \in Range(returned.entities.companies)
                \/ lower(args.query[k]) \in Range(returned.entities.companies)

\* ------------------------------------------------------------------------
\* Properties of expiry under a changed configuration
\* ------------------------------------------------------------------------
\* the lookup treated entry d of its key as expired: it did not answer from
\* it and removed it
treated_as_expired(d) == last.hit # d /\ d \notin store

\* C24 as stated: an entry is treated as expired exactly when its age has
\* reached the cache_ttl stored in it, whatever CACHE_TTL the reading
\* instance is configured with.
C24_ExpiryByStoredTTL ==
    (get_returned /\ ran_normally) =>
        \A d \in keyed_before :
            /\ age(d) >= d.cache_ttl => treated_as_expired(d)
            /\ age(d) < d.cache_ttl => (last.path = "exact" /\ last.hit = d /\ d \in store)

\* ------------------------------------------------------------------------
\* Frame of the lookup
\* ------------------------------------------------------------------------
\* C25: a lookup never creates or changes an entry: after
\* get_cached_response the store is what it was, less at most the expired
\* entry of the query's own hash; after a semantic hit there is no entry for
\* the new query, the matched entry keeps its created_at, and its stored
\* response carries none of the cached/cache_similarity/original_query
\* annotations.
C25_LookupFrame ==
    get_returned =>
        /\ store \subseteq last.pre
        /\ \A d \in last.pre \ store :
              /\ d.query_hash = HashTable[last.query, last.intent]
              /\ (now - d.created_at) * SecondsPerHour >= CACHE_TTL
        /\ last.path = "semantic" =>
              /\ last.hit \in store
              /\ \A d \in store :
                    /\ d.query_hash = HashTable[last.query, last.intent] => d \in last.pre
                    /\ d.query_hash = last.hit.query_hash =>
                          /\ d.created_at = last.hit.created_at
                          /\ DOMAIN d.response \cap
                                {"cached", "cache_similarity", "original_query"} = {}

\* a semantic hit, an hour after the matched entry was written, for a query
\* that has no entry of its own
C25_Witness ==
    /\ get_returned /\ last.path = "semantic"
    /\ keyed_before = {}
    /\ last.hit.created_at < now
    /\ "cached" \in DOMAIN last.resp
    /\ store = last.pre

\* ------------------------------------------------------------------------
\* Properties of the scan over malformed entries
\* ------------------------------------------------------------------------
\* the entries of the lookup's intent that have an entities field and have
\* not expired
scored_entries ==
    {d \in last.pre : /\ "entities" \in DOMAIN d
                      /\ d.intent = last.intent
                      /\ (now - d.created_at) * SecondsPerHour < CACHE_TTL}

\* the entries of the lookup's intent without an entities field
malformed_entries == {d \in last.pre : "entities" \notin DOMAIN d /\ d.intent = last.intent}

\* C26: an entry without an entities field is never returned by the semantic
\* scan and does not abort it: when the scan ends, its answer is not such an
\* entry, and if an entry with entities scores at least 0.6 a response is
\* still returned, from an entry that scores at least as high as every
\* non-expired entry with entities.
C26_MalformedSkipped ==
    scan_returned =>
        /\ last.ret = "response" => "entities" \in DOMAIN last.hit
        /\ (\E d \in scored_entries : 10 * scan_score(d)[1] >= 6 * scan_score(d)[2]) =>
              /\ last.ret = "response"
              /\ 10 * scan_score(last.hit)[1] >= 6 * scan_score(last.hit)[2]
              /\ \A e \in scored_entries :
                    scan_score(e)[1] * scan_score(last.hit)[2]
                        <= scan_score(last.hit)[1] * scan_score(e)[2]

\* a scan that met an old-format record of its intent, inside the window of
\* the scan, and answered from another entry
C26_Witness ==
    /\ scan_returned /\ last.ret = "response"
    /\ \E m \in malformed_entries : (now - m.created_at) * SecondsPerHour < CACHE_TTL
    /\ last.hit \in scored_entries

key_returned == args.fn = "_generate_semantic_key" /\ returned # NoResult

\* C27: the key identifies the pair (intent, normalized text): the key of
\* (q2, i2) equals the key of (q1, i1) exactly when i1 = i2 and the two
\* queries normalize to the same text (the digest taken as injective); the
\* companies, topics and locations components neither split nor merge keys.
C27_KeyIsIntentAndNormalized ==
    key_returned =>
        \A q2 \in Texts, i2 \in Intents :
            (_generate_semantic_key(q2, i2) = returned.key)
                <=> (i2 = args.intent /\ _normalize_query(q2) = _normalize_query(args.query))

\* the key of a company and a time period: another text normalizes to the
\* same words and shares the key, while the same company with an action, with
\* no second token, or with the tokens in the other order has another key
C27_Witness ==
    /\ key_returned
    /\ args.query = <<"tesla", "today">>
    /\ _generate_semantic_key(<<"tesla", "today">>, args.intent) = returned.key
    /\ _normalize_query(<<"The", "tesla", "today">>) = _normalize_query(args.query)
    /\ _generate_semantic_key(<<"tesla", "rising">>, args.intent) # returned.key
    /\ _generate_semantic_key(<<"tesla">>, args.intent) # returned.key
    /\ _generate_semantic_key(<<"today", "tesla">>, args.intent) # returned.key

\* ------------------------------------------------------------------------
\* Properties of the similarity across companies
\* ------------------------------------------------------------------------
\* C28 as stated: two entity records whose companies are both non-empty and
\* have no company in common score below 0.6, whatever the other buckets
\* hold (so the scan, which takes a score of at least 0.6, cannot answer one
\* from the other).
C28_NoHitAcrossCompanies ==
    (/\ similarity_returned
     /\ args.entities1.companies # <<>>
     /\ args.entities2.companies # <<>>
     /\ Range(args.entities1.companies) \cap Range(args.entities2.companies) = {})
        => 10 * returned.score[1] < 6 * returned.score[2]

\* ------------------------------------------------------------------------
\* Properties of lazy deletion among several instances
\* ------------------------------------------------------------------------
\* C29 as stated: whatever the interleaving of lookups and writes of several
\* instances, the delete_one of a lookup removes only an expired entry, never
\* an entry that is younger than the TTL.
C29_LazyDeleteSparesLive ==
    (get_returned /\ "delete_one" \in lookup_calls) =>
        \A d \in last.pre \ store : (now - d.created_at) * SecondsPerHour >= CACHE_TTL

\* ------------------------------------------------------------------------
\* Properties of overwriting
\* ------------------------------------------------------------------------
\* the entries of the key of the last call, after the call
keyed_after == {d \in store : d.query_hash = HashTable[last.query, last.intent]}

\* the key holds one entry, with the response, text and entities of the
\* call, stamped with the time of the call
refreshed ==
    /\ Cardinality(keyed_after) = 1
    /\ \A d \in keyed_after :
          /\ d.response = last.response
          /\ d.original_query = last.query
          /\ d.entities = EntitiesTable[last.query]
          /\ d.created_at = now

\* an entry of the lookup's key that is younger than the TTL, counted from
\* its created_at, is served by the exact path
served_for_full_ttl ==
    (get_returned /\ ran_normally) =>
        \A d \in keyed_before :
            (now - d.created_at) * SecondsPerHour < CACHE_TTL =>
                (last.path = "exact" /\ last.resp = d.response)

====
